---- MODULE Spec2Model ----
(***************************************************************************)
(* A model of dijkstra.ts: DijkstraShortestPathSolver (the graph builder   *)
(* and calculateFor) and ShortestPaths (the result and its two queries).   *)
(*                                                                         *)
(* JavaScript arrays are objects: the solver's adjacencyList is an array   *)
(* of references to per-node edge arrays.  The edge arrays live in the     *)
(* variable arrays (the heap), and every solver is the sequence of the     *)
(* references its adjacencyList holds.  Node ids are                       *)
(* 0-based as in the source; sequences are 1-based, so node n is found at  *)
(* position n + 1.                                                         *)
(***************************************************************************)
EXTENDS Integers, Sequences, FiniteSets, TLC

\* ------------------------------------------------------------------ bounds
\* The most nodes a solver gets (by init and addNode).
MaxNodes == 3
\* Edge weights are the integers 0..MaxWeight.
MaxWeight == 1
\* The most edges pushed onto the edge arrays by addEdge and addBidirEdge.
MaxEdges == 3
\* The most solvers alive: the one init returns and its clones.
MaxSolvers == 2
\* The most solvers made by init.
MaxInits == 1

\* ------------------------------------------------- values of the language
\* Infinity: larger than every finite path weight of the model.
Infinity == 1000000
\* undefined, the value of an array read outside the array.
Undefined == -2
\* The fill value of backtrace.
NoBacktrace == -1

VARIABLES arrays, solvers, result, last, run

vars == <<arrays, solvers, result, last, run>>

\* Number addition with IEEE infinity.
Plus(a, b) == IF a = Infinity \/ b = Infinity THEN Infinity ELSE a + b

\* arr[i] of a JavaScript array: undefined outside 0..length-1.
ArrayGet(arr, i) == IF i >= 0 /\ i < Len(arr) THEN arr[i + 1] ELSE Undefined

\* ---------------------------------------------------------------- TinyQueue
\* The comparator handed to TinyQueue.
compare(a, b) == a.weight - b.weight

RECURSIVE UpLoop(_, _, _)
UpLoop(data, item, pos) ==
  IF pos > 0
  THEN LET parent == (pos - 1) \div 2
           current == data[parent + 1]
       IN IF compare(item, current) >= 0
          THEN [data EXCEPT ![pos + 1] = item]
          ELSE UpLoop([data EXCEPT ![pos + 1] = current], item, parent)
  ELSE [data EXCEPT ![pos + 1] = item]

\* TinyQueue._up(pos)
Up(data, pos) == UpLoop(data, data[pos + 1], pos)

RECURSIVE DownLoop(_, _, _)
DownLoop(data, item, pos) ==
  LET length == Len(data)
      halfLength == length \div 2
  IN IF pos < halfLength
     THEN LET left0 == 2 * pos + 1
              right == left0 + 1
              takeRight == right < length
                           /\ compare(data[right + 1], data[left0 + 1]) < 0
              left == IF takeRight THEN right ELSE left0
              best == data[left + 1]
          IN IF compare(best, item) >= 0
             THEN [data EXCEPT ![pos + 1] = item]
             ELSE DownLoop([data EXCEPT ![pos + 1] = best], item, left)
     ELSE [data EXCEPT ![pos + 1] = item]

\* TinyQueue._down(pos)
Down(data, pos) == DownLoop(data, data[pos + 1], pos)

\* push without the sift up.
PushNoUp(data, item) == Append(data, item)

\* TinyQueue.push(item)
Push(data, item) == Up(Append(data, item), Len(data))

\* TinyQueue.pop() on a non-empty queue: the top and the remaining heap.
Pop(data) ==
  LET top == data[1]
      bottom == data[Len(data)]
      rest == SubSeq(data, 1, Len(data) - 1)
  IN [top |-> top,
      data |-> IF Len(rest) > 0 THEN Down([rest EXCEPT ![1] = bottom], 0) ELSE rest]

\* ------------------------------------------------------------- calculateFor
\* RelaxEdges with the candidate weight taken from the edge alone, the weight
\* of currentNode forgotten.
RECURSIVE RelaxEdgesEdgeWeightOnly(_, _, _, _)
RelaxEdgesEdgeWeightOnly(st, edges, currentNode, k) ==
  IF k > Len(edges) THEN st
  ELSE LET neighbor == edges[k]
           weight == neighbor.weight
           toNode == neighbor.toNode
       IN IF weight < st.weights[toNode + 1]
          THEN RelaxEdgesEdgeWeightOnly(
                 [weights |-> [st.weights EXCEPT ![toNode + 1] = weight],
                  backtrace |-> [st.backtrace EXCEPT ![toNode + 1] = currentNode],
                  pq |-> Push(st.pq, [toNode |-> toNode, weight |-> weight])],
                 edges, currentNode, k + 1)
          ELSE RelaxEdgesEdgeWeightOnly(st, edges, currentNode, k + 1)

\* RelaxEdges with backtrace[toNode] = currentNode set ahead of the test.
RECURSIVE RelaxEdgesAlwaysBacktrace(_, _, _, _)
RelaxEdgesAlwaysBacktrace(st, edges, currentNode, k) ==
  IF k > Len(edges) THEN st
  ELSE LET neighbor == edges[k]
           weight == Plus(st.weights[currentNode + 1], neighbor.weight)
           toNode == neighbor.toNode
           backtrace == [st.backtrace EXCEPT ![toNode + 1] = currentNode]
       IN IF weight < st.weights[toNode + 1]
          THEN RelaxEdgesAlwaysBacktrace(
                 [weights |-> [st.weights EXCEPT ![toNode + 1] = weight],
                  backtrace |-> backtrace,
                  pq |-> Push(st.pq, [toNode |-> toNode, weight |-> weight])],
                 edges, currentNode, k + 1)
          ELSE RelaxEdgesAlwaysBacktrace([st EXCEPT !.backtrace = backtrace],
                                         edges, currentNode, k + 1)

\* The for loop over the neighbors of currentNode, from the k-th edge on.
RECURSIVE RelaxEdges(_, _, _, _)
RelaxEdges(st, edges, currentNode, k) ==
  IF k > Len(edges) THEN st
  ELSE LET neighbor == edges[k]
           weight == Plus(st.weights[currentNode + 1], neighbor.weight)
           toNode == neighbor.toNode
       IN IF weight < st.weights[toNode + 1]
          THEN RelaxEdges(
                 [weights |-> [st.weights EXCEPT ![toNode + 1] = weight],
                  backtrace |-> [st.backtrace EXCEPT ![toNode + 1] = currentNode],
                  pq |-> Push(st.pq, [toNode |-> toNode, weight |-> weight])],
                 edges, currentNode, k + 1)
          ELSE RelaxEdges(st, edges, currentNode, k + 1)

\* PopStep with the for loop starting at the second edge.
PopStepFromSecondEdge(st, adj) ==
  LET p == Pop(st.pq)
      currentNode == p.top.toNode
  IN RelaxEdges([st EXCEPT !.pq = p.data], adj[currentNode + 1], currentNode, 2)

\* One iteration of the while loop: pop, then relax the popped node's edges.
PopStep(st, adj) ==
  LET p == Pop(st.pq)
      currentNode == p.top.toNode
  IN RelaxEdges([st EXCEPT !.pq = p.data], adj[currentNode + 1], currentNode, 1)

RECURSIVE SumWeights(_, _)
SumWeights(edges, k) ==
  IF k > Len(edges) THEN 0 ELSE edges[k].weight + SumWeights(edges, k + 1)

RECURSIVE TotalWeight(_, _)
TotalWeight(adj, n) ==
  IF n > Len(adj) THEN 0 ELSE SumWeights(adj[n], 1) + TotalWeight(adj, n + 1)

\* More iterations than the while loop can make on adj: a node is pushed only
\* with a weight below its current one, and every weight is a sum of edge
\* weights.
LoopFuel(adj) == 1 + Len(adj) * (TotalWeight(adj, 1) + 1)

\* while (pq.length !== 0) { ... }; what is left of the queue is empty unless
\* the fuel ran out.
RECURSIVE RunLoop(_, _, _)
RunLoop(st, adj, fuel) ==
  IF Len(st.pq) = 0 \/ fuel = 0 THEN st
  ELSE RunLoop(PopStep(st, adj), adj, fuel - 1)

\* StartState without weights[startNode] = 0.
StartStateNoZero(nodes, startNode) ==
  [weights |-> [i \in 1..nodes |-> Infinity],
   backtrace |-> [i \in 1..nodes |-> NoBacktrace],
   pq |-> <<[toNode |-> startNode, weight |-> 0]>>]

\* The three locals of calculateFor before the while loop.
StartState(nodes, startNode) ==
  [weights |-> [i \in 1..nodes |-> IF i = startNode + 1 THEN 0 ELSE Infinity],
   backtrace |-> [i \in 1..nodes |-> NoBacktrace],
   pq |-> <<[toNode |-> startNode, weight |-> 0]>>]

\* calculateFor(startNode) on the adjacency list adj (edge arrays by node).
CalculateForOutcome(adj, startNode) ==
  LET nodes == Len(adj) IN
  IF startNode < 0 \/ startNode >= nodes
  THEN [err |-> "RangeError", weights |-> <<>>, backtrace |-> <<>>]
  ELSE LET st == RunLoop(StartState(nodes, startNode), adj, LoopFuel(adj))
       IN [err |-> IF Len(st.pq) = 0 THEN "none" ELSE "diverges",
           weights |-> st.weights, backtrace |-> st.backtrace]

\* ------------------------------------------------------------ ShortestPaths
\* BackWalk with path.push in place of path.unshift.
RECURSIVE BackWalkPush(_, _, _, _)
BackWalkPush(r, path, lastStep, fuel) ==
  IF lastStep = r.startNode THEN [err |-> "none", ret |-> path]
  ELSE IF fuel = 0 THEN [err |-> "diverges", ret |-> <<>>]
  ELSE LET step == ArrayGet(r.backtrace, lastStep)
       IN IF step = Undefined
          THEN [err |-> "Error", ret |-> <<>>]
          ELSE BackWalkPush(r, path \o <<step>>, step, fuel - 1)

\* BackWalk without the test for undefined.
RECURSIVE BackWalkNoCheck(_, _, _, _)
BackWalkNoCheck(r, path, lastStep, fuel) ==
  IF lastStep = r.startNode THEN [err |-> "none", ret |-> path]
  ELSE IF fuel = 0 THEN [err |-> "diverges", ret |-> <<>>]
  ELSE LET step == ArrayGet(r.backtrace, lastStep)
       IN BackWalkNoCheck(r, <<step>> \o path, step, fuel - 1)

\* The while loop of shortestPathTo.
RECURSIVE BackWalk(_, _, _, _)
BackWalk(r, path, lastStep, fuel) ==
  IF lastStep = r.startNode THEN [err |-> "none", ret |-> path]
  ELSE IF fuel = 0 THEN [err |-> "diverges", ret |-> <<>>]
  ELSE LET step == ArrayGet(r.backtrace, lastStep)
       IN IF step = Undefined
          THEN [err |-> "Error", ret |-> <<>>]
          ELSE BackWalk(r, <<step>> \o path, step, fuel - 1)

\* ShortestPathToOutcome with the test endNode > this.nodes.
ShortestPathToOutcomeOffByOne(r, endNode) ==
  IF endNode < 0 \/ endNode > r.nodes
  THEN [err |-> "RangeError", ret |-> <<>>]
  ELSE BackWalk(r, <<endNode>>, endNode, r.nodes + 2)

\* shortestPathTo(endNode) of the result r
ShortestPathToOutcome(r, endNode) ==
  IF endNode < 0 \/ endNode >= r.nodes
  THEN [err |-> "RangeError", ret |-> <<>>]
  ELSE BackWalk(r, <<endNode>>, endNode, r.nodes + 2)

\* weightOfPathTo(endNode) of the result r
WeightOfPathToOutcome(r, endNode) ==
  IF endNode < 0 \/ endNode >= r.nodes
  THEN [err |-> "RangeError", ret |-> <<>>]
  ELSE [err |-> "none", ret |-> <<r.weights[endNode + 1]>>]

\* --------------------------------------------------------------- the state
\* The ShortestPaths object held by the caller; nodes = 0 before the first
\* successful calculateFor.
NoResult == [nodes |-> 0, startNode |-> 0, backtrace |-> <<>>, weights |-> <<>>]

\* What the last call did: the operation, the solver it was called on (0 for
\* the static init and for the queries of the result), the exception thrown
\* ("none" on a normal return), and the returned value as a sequence (empty
\* for void).
Outcome(op, on, err, ret) == [op |-> op, on |-> on, err |-> err, ret |-> ret]

\* The edge array a reference points to.  A reference <<i, k>> names the k-th
\* edge array allocated by (a call on or making) solver i.
At(ref) == arrays[ref[1]][ref[2]]

\* The heap arr after array.push(edge) on the array ref points to.
Pushed(arr, ref, edge) == [arr EXCEPT ![ref[1]][ref[2]] = Append(@, edge)]

\* The adjacency list of a solver with the references followed.
Deref(solver) == [n \in 1..Len(solver) |-> At(solver[n])]

\* get nodes()
nodes(solver) == Len(solver)

RECURSIVE RowEdges(_, _)
RowEdges(row, k) == IF k = 0 THEN 0 ELSE Len(row[k]) + RowEdges(row, k - 1)

RECURSIVE EdgesUpTo(_)
EdgesUpTo(i) ==
  IF i = 0 THEN 0 ELSE RowEdges(arrays[i], Len(arrays[i])) + EdgesUpTo(i - 1)

\* The number of edges held by all edge arrays.
HeapEdges == EdgesUpTo(Len(arrays))

\* The values tried as node ids and as node counts.
NodeArgs == -1..MaxNodes
InitArgs == 0..MaxNodes

\* The <<fromNode, toNode, weight>> tried on a solver of n nodes: every triple
\* the checks accept, and for each check the values that fail it alone.
EdgeArgs(n) ==
  ((0..(n - 1)) \X (0..(n - 1)) \X (0..MaxWeight))
    \cup {<<0, 0, -1>>, <<-1, 0, 0>>, <<n, 0, 0>>, <<0, -1, 0>>, <<0, n, 0>>}

\* No call of calculateFor under way.  A call under way is followed through
\* its loops: where it stands (pc), the solver it was called on (on), its
\* argument, its locals (st: weights, backtrace and pq; shortestStep and
\* currentNode of the while loop; k, the position of the for loop in the edge
\* array), and a record of what it did so far: the nodes popped (popped) and,
\* for every node and weight, the node from which a candidate of that weight
\* for that node was first computed (first, as <<toNode, weight, currentNode>>).
NoRun ==
  [pc |-> "idle", on |-> 0, startNode |-> 0,
   st |-> [weights |-> <<>>, backtrace |-> <<>>, pq |-> <<>>],
   shortestStep |-> [toNode |-> 0, weight |-> 0], currentNode |-> 0, k |-> 0,
   popped |-> {}, first |-> {}]

Init ==
  /\ arrays = <<>>
  /\ solvers = <<>>
  /\ result = NoResult
  /\ last = Outcome("none", 0, "none", <<>>)
  /\ run = NoRun

\* init with the test nodes < 1.
initAllowsOne(n) ==
  IF n < 1
  THEN /\ last' = Outcome("init", 0, "RangeError", <<>>)
       /\ UNCHANGED <<arrays, solvers, result, run>>
  ELSE /\ Len(solvers) < MaxInits
       /\ arrays' = Append(arrays, [k \in 1..n |-> <<>>])
       /\ solvers' = Append(solvers, [k \in 1..n |-> <<Len(solvers) + 1, k>>])
       /\ last' = Outcome("init", Len(solvers) + 1, "none", <<>>)
       /\ UNCHANGED <<result, run>>

\* static init(nodes)
init(n) ==
  IF n < 2
  THEN /\ last' = Outcome("init", 0, "RangeError", <<>>)
       /\ UNCHANGED <<arrays, solvers, result, run>>
  ELSE /\ Len(solvers) < MaxInits
       /\ arrays' = Append(arrays, [k \in 1..n |-> <<>>])
       /\ solvers' = Append(solvers, [k \in 1..n |-> <<Len(solvers) + 1, k>>])
       /\ last' = Outcome("init", Len(solvers) + 1, "none", <<>>)
       /\ UNCHANGED <<result, run>>

\* clone with adjacencyList.slice(0): a new outer array holding the same edge
\* arrays.
cloneShallow(i) ==
  /\ Len(solvers) < MaxSolvers
  /\ arrays' = Append(arrays, <<>>)
  /\ solvers' = Append(solvers, solvers[i])
  /\ last' = Outcome("clone", i, "none", <<>>)
  /\ UNCHANGED <<result, run>>

\* clone with a.slice(1) for every edge array.
cloneSliceFromOne(i) ==
  /\ Len(solvers) < MaxSolvers
  /\ arrays' = Append(arrays, [n \in 1..Len(solvers[i]) |->
                                 SubSeq(At(solvers[i][n]), 2, Len(At(solvers[i][n])))])
  /\ solvers' = Append(solvers, [n \in 1..Len(solvers[i]) |-> <<Len(solvers) + 1, n>>])
  /\ last' = Outcome("clone", i, "none", <<>>)
  /\ UNCHANGED <<result, run>>

\* clone(): a new outer array holding a fresh copy (slice) of every edge array.
clone(i) ==
  /\ Len(solvers) < MaxSolvers
  /\ arrays' = Append(arrays, [n \in 1..Len(solvers[i]) |-> At(solvers[i][n])])
  /\ solvers' = Append(solvers, [n \in 1..Len(solvers[i]) |-> <<Len(solvers) + 1, n>>])
  /\ last' = Outcome("clone", i, "none", <<>>)
  /\ UNCHANGED <<result, run>>

\* addNode with adjacencyList.unshift in place of push.
addNodeUnshift(i) ==
  /\ nodes(solvers[i]) < MaxNodes
  /\ arrays' = [arrays EXCEPT ![i] = Append(@, <<>>)]
  /\ solvers' = [solvers EXCEPT ![i] = <<<<i, Len(arrays[i]) + 1>>>> \o @]
  /\ last' = Outcome("addNode", i, "none", <<nodes(solvers'[i]) - 1>>)
  /\ UNCHANGED <<result, run>>

\* addNode()
addNode(i) ==
  /\ nodes(solvers[i]) < MaxNodes
  /\ arrays' = [arrays EXCEPT ![i] = Append(@, <<>>)]
  /\ solvers' = [solvers EXCEPT ![i] = Append(@, <<i, Len(arrays[i]) + 1>>)]
  /\ last' = Outcome("addNode", i, "none", <<nodes(solvers'[i]) - 1>>)
  /\ UNCHANGED <<result, run>>

\* The three checks addEdge and addBidirEdge open with.
EdgeArgsRejected(solver, fromNode, toNode, weight) ==
  \/ weight < 0
  \/ fromNode < 0 \/ fromNode >= nodes(solver)
  \/ toNode < 0 \/ toNode >= nodes(solver)

\* addEdge(fromNode, toNode, weight)
addEdge(i, fromNode, toNode, weight) ==
  IF EdgeArgsRejected(solvers[i], fromNode, toNode, weight)
  THEN /\ last' = Outcome("addEdge", i, "RangeError", <<>>)
       /\ UNCHANGED <<arrays, solvers, result, run>>
  ELSE /\ HeapEdges + 1 <= MaxEdges
       /\ arrays' = Pushed(arrays, solvers[i][fromNode + 1],
                           [toNode |-> toNode, weight |-> weight])
       /\ last' = Outcome("addEdge", i, "none", <<>>)
       /\ UNCHANGED <<solvers, result, run>>

\* addBidirEdge with toNode checked only after the first push.
addBidirEdgeLateCheck(i, fromNode, toNode, weight) ==
  IF weight < 0 \/ fromNode < 0 \/ fromNode >= nodes(solvers[i])
  THEN /\ last' = Outcome("addBidirEdge", i, "RangeError", <<>>)
       /\ UNCHANGED <<arrays, solvers, result, run>>
  ELSE LET pushed == Pushed(arrays, solvers[i][fromNode + 1],
                            [toNode |-> toNode, weight |-> weight])
       IN IF toNode < 0 \/ toNode >= nodes(solvers[i])
          THEN /\ HeapEdges + 1 <= MaxEdges
               /\ arrays' = pushed
               /\ last' = Outcome("addBidirEdge", i, "RangeError", <<>>)
               /\ UNCHANGED <<solvers, result, run>>
          ELSE /\ HeapEdges + 2 <= MaxEdges
               /\ arrays' = Pushed(pushed, solvers[i][toNode + 1],
                                   [toNode |-> fromNode, weight |-> weight])
               /\ last' = Outcome("addBidirEdge", i, "none", <<>>)
               /\ UNCHANGED <<solvers, result, run>>

\* addBidirEdge with { toNode, weight } pushed both times.
addBidirEdgeSameTarget(i, fromNode, toNode, weight) ==
  IF EdgeArgsRejected(solvers[i], fromNode, toNode, weight)
  THEN /\ last' = Outcome("addBidirEdge", i, "RangeError", <<>>)
       /\ UNCHANGED <<arrays, solvers, result, run>>
  ELSE /\ HeapEdges + 2 <= MaxEdges
       /\ arrays' = Pushed(Pushed(arrays, solvers[i][fromNode + 1],
                                  [toNode |-> toNode, weight |-> weight]),
                           solvers[i][toNode + 1],
                           [toNode |-> toNode, weight |-> weight])
       /\ last' = Outcome("addBidirEdge", i, "none", <<>>)
       /\ UNCHANGED <<solvers, result, run>>

\* addBidirEdge(fromNode, toNode, weight): the second push sees the first.
addBidirEdge(i, fromNode, toNode, weight) ==
  IF EdgeArgsRejected(solvers[i], fromNode, toNode, weight)
  THEN /\ last' = Outcome("addBidirEdge", i, "RangeError", <<>>)
       /\ UNCHANGED <<arrays, solvers, result, run>>
  ELSE /\ HeapEdges + 2 <= MaxEdges
       /\ arrays' = Pushed(Pushed(arrays, solvers[i][fromNode + 1],
                                  [toNode |-> toNode, weight |-> weight]),
                           solvers[i][toNode + 1],
                           [toNode |-> fromNode, weight |-> weight])
       /\ last' = Outcome("addBidirEdge", i, "none", <<>>)
       /\ UNCHANGED <<solvers, result, run>>

\* new ShortestPaths(nodes, startNode, backtrace, weights)
ShortestPaths(n, startNode, backtrace, weights) ==
  [nodes |-> n, startNode |-> startNode, backtrace |-> backtrace, weights |-> weights]

\* calculateFor that takes the edges out of the start node's array as it goes.
calculateForDraining(i, startNode) ==
  LET out == CalculateForOutcome(Deref(solvers[i]), startNode) IN
  /\ last' = Outcome("calculateFor", i, out.err, <<>>)
  /\ result' = IF out.err = "none"
               THEN ShortestPaths(nodes(solvers[i]), startNode,
                                  out.backtrace, out.weights)
               ELSE result
  /\ arrays' = IF out.err = "none"
               THEN [arrays EXCEPT ![solvers[i][startNode + 1][1]]
                                    [solvers[i][startNode + 1][2]] = <<>>]
               ELSE arrays
  /\ UNCHANGED <<solvers, run>>

\* calculateFor(startNode): the caller keeps the returned ShortestPaths.
calculateFor(i, startNode) ==
  LET out == CalculateForOutcome(Deref(solvers[i]), startNode) IN
  /\ last' = Outcome("calculateFor", i, out.err, <<>>)
  /\ result' = IF out.err = "none"
               THEN ShortestPaths(nodes(solvers[i]), startNode,
                                  out.backtrace, out.weights)
               ELSE result
  /\ UNCHANGED <<arrays, solvers, run>>

\* shortestPathTo(endNode) on the result the caller holds
shortestPathTo(endNode) ==
  /\ result # NoResult
  /\ LET out == ShortestPathToOutcome(result, endNode)
     IN last' = Outcome("shortestPathTo", 0, out.err, out.ret)
  /\ UNCHANGED <<arrays, solvers, result, run>>

\* weightOfPathTo(endNode) on the result the caller holds
weightOfPathTo(endNode) ==
  /\ result # NoResult
  /\ LET out == WeightOfPathToOutcome(result, endNode)
     IN last' = Outcome("weightOfPathTo", 0, out.err, out.ret)
  /\ UNCHANGED <<arrays, solvers, result, run>>

\* --------------------------------------------- calculateFor, step by step
\* The body of the for loop with <= in place of <.
RelaxOrEqual(st, neighbor, currentNode) ==
  LET weight == Plus(st.weights[currentNode + 1], neighbor.weight)
      toNode == neighbor.toNode
  IN IF weight <= st.weights[toNode + 1]
     THEN [weights |-> [st.weights EXCEPT ![toNode + 1] = weight],
           backtrace |-> [st.backtrace EXCEPT ![toNode + 1] = currentNode],
           pq |-> Push(st.pq, [toNode |-> toNode, weight |-> weight])]
     ELSE st

\* The body of the for loop pushing { toNode, weight: neighbor.weight }.
RelaxPushEdgeWeight(st, neighbor, currentNode) ==
  LET weight == Plus(st.weights[currentNode + 1], neighbor.weight)
      toNode == neighbor.toNode
  IN IF weight < st.weights[toNode + 1]
     THEN [weights |-> [st.weights EXCEPT ![toNode + 1] = weight],
           backtrace |-> [st.backtrace EXCEPT ![toNode + 1] = currentNode],
           pq |-> Push(st.pq, [toNode |-> toNode, weight |-> neighbor.weight])]
     ELSE st

\* The body of the for loop for one neighbor.
Relax(st, neighbor, currentNode) ==
  LET weight == Plus(st.weights[currentNode + 1], neighbor.weight)
      toNode == neighbor.toNode
  IN IF weight < st.weights[toNode + 1]
     THEN [weights |-> [st.weights EXCEPT ![toNode + 1] = weight],
           backtrace |-> [st.backtrace EXCEPT ![toNode + 1] = currentNode],
           pq |-> Push(st.pq, [toNode |-> toNode, weight |-> weight])]
     ELSE st

\* The edge array the for loop of the call under way iterates.
RunEdges == At(solvers[run.on][run.currentNode + 1])

\* calculateFor up to the while loop: the range check and the three locals.
calculateForEnter(i, startNode) ==
  /\ run.pc = "idle"
  /\ IF startNode < 0 \/ startNode >= nodes(solvers[i])
     THEN /\ run' = [run EXCEPT !.pc = "thrown", !.on = i, !.startNode = startNode]
          /\ last' = Outcome("calculateFor", i, "RangeError", <<>>)
     ELSE /\ run' = [run EXCEPT !.pc = "while", !.on = i, !.startNode = startNode,
                                !.st = StartState(nodes(solvers[i]), startNode)]
          /\ UNCHANGED last
  /\ UNCHANGED <<arrays, solvers, result>>

\* The while test passes with pq.peek() in place of pq.pop().
calculateForPeek ==
  /\ run.pc = "while"
  /\ Len(run.st.pq) # 0
  /\ LET p == Pop(run.st.pq)
     IN run' = [run EXCEPT !.pc = "for",
                           !.shortestStep = p.top,
                           !.currentNode = p.top.toNode,
                           !.k = 1,
                           !.popped = @ \cup {p.top.toNode}]
  /\ UNCHANGED <<arrays, solvers, result, last>>

\* The while test passes: shortestStep = pq.pop(), and the for loop starts.
calculateForPop ==
  /\ run.pc = "while"
  /\ Len(run.st.pq) # 0
  /\ LET p == Pop(run.st.pq)
     IN run' = [run EXCEPT !.pc = "for",
                           !.st.pq = p.data,
                           !.shortestStep = p.top,
                           !.currentNode = p.top.toNode,
                           !.k = 1,
                           !.popped = @ \cup {p.top.toNode}]
  /\ UNCHANGED <<arrays, solvers, result, last>>

\* One turn of the for loop: the next neighbor, or the end of the edge array
\* and back to the while test.
calculateForNeighbor ==
  /\ run.pc = "for"
  /\ IF run.k > Len(RunEdges)
     THEN run' = [run EXCEPT !.pc = "while"]
     ELSE LET neighbor == RunEdges[run.k]
              weight == Plus(run.st.weights[run.currentNode + 1], neighbor.weight)
              seen == \E f \in run.first : f[1] = neighbor.toNode /\ f[2] = weight
          IN run' = [run EXCEPT
                       !.st = Relax(run.st, neighbor, run.currentNode),
                       !.k = @ + 1,
                       !.first = IF seen THEN @
                                 ELSE @ \cup {<<neighbor.toNode, weight, run.currentNode>>}]
  /\ UNCHANGED <<arrays, solvers, result, last>>

\* The while test fails: return new ShortestPaths(...), kept by the caller.
calculateForReturn ==
  /\ run.pc = "while"
  /\ Len(run.st.pq) = 0
  /\ run' = [run EXCEPT !.pc = "returned"]
  /\ result' = ShortestPaths(nodes(solvers[run.on]), run.startNode,
                             run.st.backtrace, run.st.weights)
  /\ last' = Outcome("calculateFor", run.on, "none", <<>>)
  /\ UNCHANGED <<arrays, solvers>>

Solvers == 1..Len(solvers)

\* The operations of the builder: a template solver and its clones.
NextGraph ==
  \/ \E n \in InitArgs : init(n)
  \/ \E i \in Solvers : clone(i)
  \/ \E i \in Solvers : addNode(i)
  \/ \E i \in Solvers : \E a \in EdgeArgs(nodes(solvers[i])) :
       addEdge(i, a[1], a[2], a[3])
  \/ \E i \in Solvers : \E a \in EdgeArgs(nodes(solvers[i])) :
       addBidirEdge(i, a[1], a[2], a[3])

\* The operations of one solver and of the result it returns.
NextSolve ==
  \/ \E n \in InitArgs : init(n)
  \/ \E i \in Solvers : addNode(i)
  \/ \E i \in Solvers : \E a \in EdgeArgs(nodes(solvers[i])) :
       addEdge(i, a[1], a[2], a[3])
  \/ \E i \in Solvers : \E a \in EdgeArgs(nodes(solvers[i])) :
       addBidirEdge(i, a[1], a[2], a[3])
  \/ \E i \in Solvers, s \in NodeArgs : calculateFor(i, s)
  \/ \E e \in NodeArgs : shortestPathTo(e)
  \/ \E e \in NodeArgs : weightOfPathTo(e)

\* One solver built and extended, then one call of calculateFor followed
\* through its loops to its return or throw.
NextLoop ==
  \/ run.pc = "idle" /\ \E n \in InitArgs : init(n)
  \/ run.pc = "idle" /\ \E i \in Solvers : addNode(i)
  \/ run.pc = "idle" /\ \E i \in Solvers : \E a \in EdgeArgs(nodes(solvers[i])) :
       addEdge(i, a[1], a[2], a[3])
  \/ run.pc = "idle" /\ \E i \in Solvers : \E a \in EdgeArgs(nodes(solvers[i])) :
       addBidirEdge(i, a[1], a[2], a[3])
  \/ \E i \in Solvers, s \in NodeArgs : calculateForEnter(i, s)
  \/ calculateForPop
  \/ calculateForNeighbor
  \/ calculateForReturn

\* A template solver and its clones, built and extended.
SpecGraph == Init /\ [][NextGraph]_vars

\* One solver built, extended, solved and queried.
SpecSolve == Init /\ [][NextSolve]_vars

\* A call under way runs on: JavaScript runs calculateFor to completion, every
\* step of its loops is taken once it can be.
SpecLoop ==
  /\ Init
  /\ [][NextLoop]_vars
  /\ WF_vars(calculateForPop)
  /\ WF_vars(calculateForNeighbor)
  /\ WF_vars(calculateForReturn)

\* ---------------------------------------------------- reference definitions
\* The least element of a non-empty set of numbers.
MinOf(S) == CHOOSE x \in S : \A y \in S : x <= y

\* The edges of adj as <<position of the source node, index in its array>>.
EdgeIndex(adj) ==
  UNION {{<<u, k>> : k \in 1..Len(adj[u])} : u \in 1..Len(adj)}

\* The least weight of a walk of at most rounds edges from startNode to each
\* node, Infinity where there is none.
RECURSIVE WalkWeights(_, _, _)
WalkWeights(adj, startNode, rounds) ==
  IF rounds = 0
  THEN [v \in 1..Len(adj) |-> IF v = startNode + 1 THEN 0 ELSE Infinity]
  ELSE LET d == WalkWeights(adj, startNode, rounds - 1)
       IN [v \in 1..Len(adj) |->
             MinOf({d[v]} \cup
                   {Plus(d[q[1]], adj[q[1]][q[2]].weight) :
                      q \in {e \in EdgeIndex(adj) : adj[e[1]][e[2]].toNode = v - 1}})]

\* The minimum total weight over all directed paths from startNode to v: with
\* weights >= 0 a lightest walk need not repeat a node, so Len(adj) - 1 edges do.
MinPathWeight(adj, startNode, v) ==
  WalkWeights(adj, startNode, Len(adj) - 1)[v + 1]

\* The last call was a calculateFor that returned a result.
Solved == last.op = "calculateFor" /\ last.err = "none"

\* The adjacency list of the solver the last call was made on.
LastGraph == Deref(solvers[last.on])

\* The weights of the edges u -> v of adj.
EdgeWeights(adj, u, v) ==
  {adj[u + 1][k].weight : k \in {j \in 1..Len(adj[u + 1]) : adj[u + 1][j].toNode = v}}

\* The total weight of path in adj, a lightest edge taken at every step.
RECURSIVE PathWeight(_, _)
PathWeight(adj, path) ==
  IF Len(path) < 2 THEN 0
  ELSE MinOf(EdgeWeights(adj, path[1], path[2])) + PathWeight(adj, Tail(path))

\* C1: right after calculateFor(startNode) returns, weightOfPathTo(v) is, for
\* every node v, the minimum total weight over all directed paths from
\* startNode to v in the solver's graph, and Infinity exactly when there is no
\* such path.
C1_WeightsAreMinimal ==
  Solved =>
    /\ result.nodes = Len(LastGraph)
    /\ \A v \in 0..(result.nodes - 1) :
         WeightOfPathToOutcome(result, v) =
           [err |-> "none",
            ret |-> <<MinPathWeight(LastGraph, result.startNode, v)>>]

\* A solve in which a path of two edges is lighter than a direct edge.
C1_Witness ==
  /\ Solved
  /\ \E v \in 0..(result.nodes - 1) :
       /\ result.backtrace[v + 1] \notin {NoBacktrace, result.startNode}
       /\ \E w \in EdgeWeights(LastGraph, result.startNode, v) :
            result.weights[v + 1] < w

\* C2: right after calculateFor(startNode) returns, for every endNode
\* reachable from startNode, shortestPathTo(endNode) returns a sequence from
\* startNode to endNode in which every consecutive pair (u, v) is joined by an
\* edge u -> v of the graph with distance[v] = distance[u] + its weight, and
\* the path's total weight is weightOfPathTo(endNode).
C2_PathFollowsEdges ==
  Solved =>
    \A endNode \in 0..(result.nodes - 1) :
      MinPathWeight(LastGraph, result.startNode, endNode) < Infinity =>
        LET out == ShortestPathToOutcome(result, endNode)
            path == out.ret
        IN /\ out.err = "none"
           /\ Len(path) >= 1
           /\ path[1] = result.startNode
           /\ path[Len(path)] = endNode
           /\ \A k \in 1..(Len(path) - 1) :
                /\ path[k] \in 0..(result.nodes - 1)
                /\ \E w \in EdgeWeights(LastGraph, path[k], path[k + 1]) :
                     result.weights[path[k + 1] + 1] = result.weights[path[k] + 1] + w
           /\ <<PathWeight(LastGraph, path)>> = WeightOfPathToOutcome(result, endNode).ret

\* A solve whose result holds a path of three nodes.
C2_Witness ==
  /\ Solved
  /\ \E endNode \in 0..(result.nodes - 1) :
       /\ ShortestPathToOutcome(result, endNode).err = "none"
       /\ Len(ShortestPathToOutcome(result, endNode).ret) = 3

\* C3: right after calculateFor(startNode) returns, for every valid endNode
\* that is unreachable from startNode shortestPathTo(endNode) throws the "no
\* path" Error (it neither returns a path nor loops) while
\* weightOfPathTo(endNode) returns Infinity without throwing; for every
\* reachable endNode shortestPathTo does not throw.
C3_UnreachableThrows ==
  Solved =>
    \A endNode \in 0..(result.nodes - 1) :
      IF MinPathWeight(LastGraph, result.startNode, endNode) = Infinity
      THEN /\ ShortestPathToOutcome(result, endNode) = [err |-> "Error", ret |-> <<>>]
           /\ WeightOfPathToOutcome(result, endNode) =
                [err |-> "none", ret |-> <<Infinity>>]
      ELSE ShortestPathToOutcome(result, endNode).err = "none"

\* A solve that leaves one node unreachable and reaches another node.
C3_Witness ==
  /\ Solved
  /\ \E a, b \in 0..(result.nodes - 1) :
       /\ MinPathWeight(LastGraph, result.startNode, a) = Infinity
       /\ b # result.startNode
       /\ MinPathWeight(LastGraph, result.startNode, b) < Infinity

\* The calls that change a graph.
Mutations == {"addNode", "addEdge", "addBidirEdge"}

\* The heap arr with the edge fromNode -> toNode of the given weight appended
\* to the edge array of fromNode in solver.
EdgeAppended(arr, solver, fromNode, toNode, weight) ==
  LET ref == solver[fromNode + 1]
  IN [arr EXCEPT ![ref[1]] =
        [@ EXCEPT ![ref[2]] = @ \o <<[toNode |-> toNode, weight |-> weight]>>]]

\* The adjacency list of solver i after the step.
DerefNext(i) ==
  [n \in 1..Len(solvers'[i]) |-> arrays'[solvers'[i][n][1]][solvers'[i][n][2]]]

\* C4: clone() gives a solver with the node count and edge lists of the
\* original and leaves every existing solver as it was; and every later
\* addNode, addEdge or addBidirEdge on one solver leaves the node count and
\* every edge list of every other solver unchanged.
C4_CloneIsIndependent ==
  [][/\ last'.op = "clone" /\ Len(solvers') > Len(solvers) =>
          /\ DerefNext(Len(solvers')) = Deref(solvers[last'.on])
          /\ \A i \in Solvers : DerefNext(i) = Deref(solvers[i])
     /\ last'.op \in Mutations =>
          \A i \in Solvers \ {last'.on} : DerefNext(i) = Deref(solvers[i])
    ]_vars

\* A graph with an edge was cloned, and one of the two then got one more edge
\* in the same edge array.
C4_Witness ==
  /\ Len(solvers) = 2
  /\ last.op = "addEdge" /\ last.err = "none"
  /\ \E n \in 1..Len(solvers[1]) :
       /\ n <= Len(solvers[2])
       /\ Len(At(solvers[1][n])) >= 1
       /\ Len(At(solvers[2][n])) >= 1
       /\ Len(At(solvers[1][n])) # Len(At(solvers[2][n]))

\* C5: an addEdge or addBidirEdge that throws leaves the node count and every
\* edge list of every graph as before the call (a thrown addBidirEdge leaves
\* neither of its edges behind); no call leaves an edge with a negative weight
\* or an end outside the graph's nodes; and a call that returns normally right
\* after a thrown one has appended exactly its one or two edges.
C5_RejectedEdgeChangesNothing ==
  [][/\ last'.op \in {"addEdge", "addBidirEdge"} /\ last'.err # "none" =>
          /\ last'.err = "RangeError"
          /\ UNCHANGED <<arrays, solvers>>
     /\ \A i \in 1..Len(solvers') : \A n \in 1..Len(solvers'[i]) :
          \A k \in 1..Len(DerefNext(i)[n]) :
            /\ DerefNext(i)[n][k].weight >= 0
            /\ DerefNext(i)[n][k].toNode \in 0..(Len(solvers'[i]) - 1)
     /\ /\ last.op \in {"addEdge", "addBidirEdge"} /\ last.err = "RangeError"
        /\ last'.op \in {"addEdge", "addBidirEdge"} /\ last'.err = "none"
        => /\ solvers' = solvers
           /\ HeapEdges' = HeapEdges + (IF last'.op = "addEdge" THEN 1 ELSE 2)
    ]_vars

\* An addBidirEdge was rejected on a graph that holds edges.
C5_Witness ==
  /\ last.op = "addBidirEdge" /\ last.err = "RangeError"
  /\ HeapEdges > 0

\* C6: calculateFor leaves the node count and edge lists of every graph
\* unchanged, and every addNode, addEdge or addBidirEdge leaves the answers of
\* the result computed before it unchanged: its node count, and
\* shortestPathTo and weightOfPathTo for every argument.
C6_ResultIsDetached ==
  [][/\ last'.op = "calculateFor" => UNCHANGED <<arrays, solvers>>
     /\ last'.op \in Mutations =>
          /\ result'.nodes = result.nodes
          /\ \A e \in NodeArgs :
               /\ ShortestPathToOutcome(result', e) = ShortestPathToOutcome(result, e)
               /\ WeightOfPathToOutcome(result', e) = WeightOfPathToOutcome(result, e)
    ]_vars

\* An edge was added after a solve, and solving again from the same start
\* node would now give other weights than the result holds.
C6_Witness ==
  /\ last.op = "addEdge" /\ last.err = "none"
  /\ result # NoResult
  /\ result.nodes = Len(LastGraph)
  /\ CalculateForOutcome(LastGraph, result.startNode).weights # result.weights

\* The result calculateFor(startNode) returns on adj.
ResultOn(adj, startNode) ==
  LET out == CalculateForOutcome(adj, startNode)
  IN ShortestPaths(Len(adj), startNode, out.backtrace, out.weights)

\* C7: right after g2 = g.clone(), whatever built g, calculateFor(startNode)
\* on g and on g2 end alike for every startNode, and the two results answer
\* weightOfPathTo and shortestPathTo alike (the same weight, the same path or
\* the same exception) for every endNode.
C7_CloneSolvesAlike ==
  last.op = "clone" =>
    LET g == Deref(solvers[last.on])
        g2 == Deref(solvers[Len(solvers)])
    IN /\ Len(g2) = Len(g)
       /\ \A startNode \in NodeArgs :
            /\ CalculateForOutcome(g, startNode).err =
                 CalculateForOutcome(g2, startNode).err
            /\ CalculateForOutcome(g, startNode).err = "none" =>
                 \A endNode \in NodeArgs :
                   /\ WeightOfPathToOutcome(ResultOn(g, startNode), endNode) =
                        WeightOfPathToOutcome(ResultOn(g2, startNode), endNode)
                   /\ ShortestPathToOutcome(ResultOn(g, startNode), endNode) =
                        ShortestPathToOutcome(ResultOn(g2, startNode), endNode)

\* A clone of a graph in which some shortest path has three nodes and some
\* node is unreachable from some start node.
C7_Witness ==
  /\ last.op = "clone"
  /\ LET g2 == Deref(solvers[Len(solvers)])
     IN /\ \E s \in 0..(Len(g2) - 1), e \in 0..(Len(g2) - 1) :
             Len(ShortestPathToOutcome(ResultOn(g2, s), e).ret) = 3
        /\ \E s \in 0..(Len(g2) - 1), e \in 0..(Len(g2) - 1) :
             ShortestPathToOutcome(ResultOn(g2, s), e).err = "Error"

\* C8: an addBidirEdge(a, b, w) that returns normally leaves the edge arrays
\* addEdge(a, b, w) followed by addEdge(b, a, w) leaves (addEdge appending
\* its one edge), also when a = b; and solving from a and from b afterwards
\* gives weights a -> b and b -> a of at most w, equal to w when no path
\* lighter than w joined them before.
C8_BidirIsTwoEdges ==
  [][last'.err = "none" /\ last'.op \in {"addEdge", "addBidirEdge"} =>
       \A a \in 0..(MaxNodes - 1), b \in 0..(MaxNodes - 1), w \in 0..MaxWeight :
         LET i == last'.on
             g == Deref(solvers[i])
             after == DerefNext(i)
         IN /\ addEdge(i, a, b, w) =>
                 /\ arrays' = EdgeAppended(arrays, solvers[i], a, b, w)
                 /\ solvers' = solvers
            /\ addBidirEdge(i, a, b, w) =>
                 /\ arrays' = EdgeAppended(EdgeAppended(arrays, solvers[i], a, b, w),
                                           solvers[i], b, a, w)
                 /\ solvers' = solvers
                 /\ CalculateForOutcome(after, a).err = "none"
                 /\ CalculateForOutcome(after, b).err = "none"
                 /\ LET ab == WeightOfPathToOutcome(ResultOn(after, a), b).ret[1]
                        ba == WeightOfPathToOutcome(ResultOn(after, b), a).ret[1]
                    IN /\ ab <= w
                       /\ ba <= w
                       /\ MinPathWeight(g, a, b) >= w => ab = w
                       /\ MinPathWeight(g, b, a) >= w => ba = w
    ]_vars

\* An addBidirEdge returned on a graph with an edge: the last edge of some
\* node a leads to some other node b, and the last edge of b leads back with
\* the same weight.
C8_Witness ==
  /\ last.op = "addBidirEdge" /\ last.err = "none"
  /\ HeapEdges = 3
  /\ \E a, b \in 1..Len(LastGraph) :
       /\ a # b
       /\ Len(LastGraph[a]) >= 1 /\ Len(LastGraph[b]) >= 1
       /\ LastGraph[a][Len(LastGraph[a])].toNode = b - 1
       /\ LastGraph[b][Len(LastGraph[b])].toNode = a - 1
       /\ LastGraph[a][Len(LastGraph[a])].weight = LastGraph[b][Len(LastGraph[b])].weight

\* C9: init(nodeCount) throws a RangeError and builds nothing for every
\* nodeCount < 2, and for every nodeCount >= 2 returns a new solver with
\* exactly nodeCount nodes, each with an empty edge list, the existing solvers
\* left as they were.
C9_InitNeedsTwoNodes ==
  [][last'.op = "init" =>
       \A n \in InitArgs :
         init(n) =>
           IF n < 2
           THEN /\ last'.err = "RangeError"
                /\ UNCHANGED <<arrays, solvers>>
           ELSE /\ last'.err = "none"
                /\ Len(solvers') = Len(solvers) + 1
                /\ last'.on = Len(solvers')
                /\ DerefNext(Len(solvers')) = [k \in 1..n |-> <<>>]
                /\ \A i \in Solvers : DerefNext(i) = Deref(solvers[i])
    ]_vars

\* init returned a solver of two nodes.
C9_Witness ==
  /\ last.op = "init" /\ last.err = "none"
  /\ Len(solvers) = 1
  /\ Deref(solvers[1]) = <<<<>>, <<>>>>

\* C10: addNode does not throw; it raises the node count of its solver by
\* one, returns the new node's id, which is the new node count minus one,
\* gives the new node an empty edge list and leaves the edge list of every
\* node the solver had in place; and no call removes a solver, lowers a
\* solver's node count or leaves it below 2.
C10_AddNodeAppends ==
  [][/\ last'.op = "addNode" =>
          LET i == last'.on
              n == Len(solvers[i])
          IN /\ last'.err = "none"
             /\ Len(solvers'[i]) = n + 1
             /\ last'.ret = <<n>>
             /\ DerefNext(i)[n + 1] = <<>>
             /\ \A k \in 1..n : DerefNext(i)[k] = Deref(solvers[i])[k]
     /\ Len(solvers') >= Len(solvers)
     /\ \A i \in Solvers : Len(solvers'[i]) >= Len(solvers[i])
     /\ \A i \in 1..Len(solvers') : Len(solvers'[i]) >= 2
    ]_vars

\* addNode returned the id 2 on a graph whose last node before it has an edge.
C10_Witness ==
  /\ last.op = "addNode" /\ last.err = "none"
  /\ last.ret = <<2>>
  /\ Len(LastGraph) = 3
  /\ Len(LastGraph[2]) >= 1

\* C11: for every graph and every valid startNode, also one with self-loops
\* or on a cycle of weight 0, calculateFor(startNode) returns, and its result
\* answers shortestPathTo(startNode) with [startNode] and
\* weightOfPathTo(startNode) with 0.
C11_StartNodeIsItsOwnPath ==
  last.op = "calculateFor" =>
    /\ last.err \in {"none", "RangeError"}
    /\ last.err = "none" =>
         /\ ShortestPathToOutcome(result, result.startNode) =
              [err |-> "none", ret |-> <<result.startNode>>]
         /\ WeightOfPathToOutcome(result, result.startNode) =
              [err |-> "none", ret |-> <<0>>]

\* A solve from a start node that has a self-loop of weight 0 and lies on a
\* cycle of weight 0 through another node.
C11_Witness ==
  /\ Solved
  /\ 0 \in EdgeWeights(LastGraph, result.startNode, result.startNode)
  /\ \E v \in 0..(result.nodes - 1) :
       /\ v # result.startNode
       /\ 0 \in EdgeWeights(LastGraph, result.startNode, v)
       /\ 0 \in EdgeWeights(LastGraph, v, result.startNode)

\* C12: in the result of one calculateFor call, for every edge y -> x of
\* weight w of the graph, weightOfPathTo(x) <= weightOfPathTo(y) + w, with
\* Infinity for the nodes not reached.
C12_EveryEdgeIsRelaxed ==
  Solved =>
    \A e \in EdgeIndex(LastGraph) :
      LET y == e[1] - 1
          x == LastGraph[e[1]][e[2]].toNode
          w == LastGraph[e[1]][e[2]].weight
      IN /\ WeightOfPathToOutcome(result, x).err = "none"
         /\ WeightOfPathToOutcome(result, y).err = "none"
         /\ WeightOfPathToOutcome(result, x).ret[1] <=
              Plus(WeightOfPathToOutcome(result, y).ret[1], w)

\* A solve of a graph with an edge between reached nodes that is heavier than
\* needed, and an edge out of a node that is not reached.
C12_Witness ==
  /\ Solved
  /\ \E e \in EdgeIndex(LastGraph) :
       /\ result.weights[e[1]] < Infinity
       /\ result.weights[LastGraph[e[1]][e[2]].toNode + 1] <
            result.weights[e[1]] + LastGraph[e[1]][e[2]].weight
  /\ \E e \in EdgeIndex(LastGraph) :
       /\ result.weights[e[1]] = Infinity
       /\ result.weights[LastGraph[e[1]][e[2]].toNode + 1] < Infinity

\* C13: every operation that takes a node id throws a RangeError, with the
\* graphs and the result held left as they were, for exactly the ids outside
\* 0..N-1: addEdge and addBidirEdge (given a weight >= 0) and calculateFor
\* with N the node count of the graph at the call, so that an id addNode
\* returned is accepted; shortestPathTo and weightOfPathTo with N the node
\* count the result took at its construction, so that the id of a node added
\* to the graph later gets a RangeError, not the "no path" Error.
C13_NodeIdsAreRangeChecked ==
  [][/\ last'.op = "calculateFor" =>
          LET valid == 0..(nodes(solvers[last'.on]) - 1)
          IN /\ last'.err \in {"none", "RangeError"}
             /\ \A s \in NodeArgs \ valid :
                  calculateFor(last'.on, s) =>
                    /\ last'.err = "RangeError"
                    /\ UNCHANGED <<arrays, solvers, result>>
             /\ last'.err = "RangeError" =>
                  \A s \in valid : ~calculateFor(last'.on, s)
             /\ last'.err = "none" =>
                  /\ result'.nodes = nodes(solvers[last'.on])
                  /\ result'.startNode \in valid
     /\ last'.op \in {"shortestPathTo", "weightOfPathTo"} =>
          \A e \in NodeArgs :
            shortestPathTo(e) \/ weightOfPathTo(e) =>
              /\ last'.err = "RangeError" <=> e \notin 0..(result.nodes - 1)
              /\ UNCHANGED <<arrays, solvers, result>>
     /\ last'.op \in {"addEdge", "addBidirEdge"} /\ last'.err # "none" =>
          LET i == last'.on
              valid == 0..(nodes(solvers[i]) - 1)
          IN /\ last'.err = "RangeError"
             /\ UNCHANGED <<arrays, solvers, result>>
             /\ \A a \in {b \in EdgeArgs(nodes(solvers[i])) : b[3] >= 0} :
                  IF a[1] \in valid /\ a[2] \in valid
                  THEN ~EdgeArgsRejected(solvers[i], a[1], a[2], a[3])
                  ELSE IF last'.op = "addEdge"
                       THEN addEdge(i, a[1], a[2], a[3])
                       ELSE addBidirEdge(i, a[1], a[2], a[3])
     /\ last'.op = "addNode" =>
          last'.ret[1] \in 0..(nodes(solvers'[last'.on]) - 1) \ 0..(nodes(solvers[last'.on]) - 1)
    ]_vars

\* A node was added to the graph after the solve, and a shortestPathTo on the
\* result, which holds the node count of before, threw a RangeError.
C13_Witness ==
  /\ last.op = "shortestPathTo" /\ last.err = "RangeError"
  /\ result.nodes = 2
  /\ nodes(solvers[1]) = 3
  /\ HeapEdges > 0

\* The adjacency list of the solver the call of calculateFor under way (or
\* ended) was made on.
RunGraph == Deref(solvers[run.on])

\* C14: for every graph (with cycles of weight 0, self-loops and parallel
\* edges too) and every valid startNode, a call of calculateFor that has
\* reached its while loop empties the priority queue and returns a result,
\* the one calculateFor taken as a whole gives.
C14_CalculateForReturns ==
  run.pc \in {"while", "for"} ~>
    /\ run.pc = "returned"
    /\ Len(run.st.pq) = 0
    /\ last = Outcome("calculateFor", run.on, "none", <<>>)
    /\ result = ShortestPaths(Len(RunGraph), run.startNode,
                              run.st.backtrace, run.st.weights)
    /\ CalculateForOutcome(RunGraph, run.startNode).err = "none"
    /\ result = ResultOn(RunGraph, run.startNode)

\* A call returned on a graph in which a node reached from the start node
\* has a self-loop of weight 0 and two parallel edges lead to it.
C14_Witness ==
  /\ run.pc = "returned"
  /\ \E v \in 0..(Len(RunGraph) - 1) :
       /\ v # run.startNode
       /\ 0 \in EdgeWeights(RunGraph, v, v)
       /\ Cardinality({k \in 1..Len(RunGraph[run.startNode + 1]) :
                         RunGraph[run.startNode + 1][k].toNode = v}) = 2

\* The call under way is in its loops.
InLoop == run.pc \in {"while", "for"}

\* The for loop is at a neighbor (not at the end of the edge array).
AtNeighbor == run.pc = "for" /\ run.k <= Len(RunEdges)

\* The candidate weight the for loop computes for the neighbor it is at.
Candidate == Plus(run.st.weights[run.currentNode + 1], RunEdges[run.k].weight)

\* C15: during calculateFor, weights[v] and backtrace[v] are overwritten only
\* in the for loop, by a candidate for v that is strictly less than
\* weights[v], and then with that candidate and currentNode; a candidate that
\* is not less changes nothing.  Hence at the return backtrace[v] of every
\* node reached is the node from which the final weight of v was first
\* computed, in the order of the pops: a later candidate of the same weight
\* has not replaced it.
C15_OnlyStrictlyLighterOverwrites ==
  [][/\ InLoop =>
          \A v \in 1..Len(run.st.weights) :
            \/ run'.st.weights[v] # run.st.weights[v]
            \/ run'.st.backtrace[v] # run.st.backtrace[v]
            => /\ AtNeighbor
               /\ RunEdges[run.k].toNode = v - 1
               /\ Candidate < run.st.weights[v]
               /\ run'.st.weights[v] = Candidate
               /\ run'.st.backtrace[v] = run.currentNode
     /\ AtNeighbor /\ Candidate >= run.st.weights[RunEdges[run.k].toNode + 1] =>
          run'.st = run.st
     /\ InLoop /\ run'.pc = "returned" =>
          \A v \in 1..Len(result'.weights) :
            IF result'.backtrace[v] = NoBacktrace
            THEN \A f \in run.first : f[1] = v - 1 => f[2] >= result'.weights[v]
            ELSE <<v - 1, result'.weights[v], result'.backtrace[v]>> \in run.first
    ]_vars

\* A call returned after two nodes u1 and u2 each gave the same, final
\* candidate weight for a node v.
C15_Witness ==
  /\ run.pc = "returned"
  /\ \E v \in 0..(Len(RunGraph) - 1) :
       /\ v # run.startNode
       /\ \E u1, u2 \in 0..(Len(RunGraph) - 1) :
            /\ u1 # u2
            /\ \E w \in EdgeWeights(RunGraph, u1, v) :
                 result.weights[u1 + 1] + w = result.weights[v + 1]
            /\ \E w \in EdgeWeights(RunGraph, u2, v) :
                 result.weights[u2 + 1] + w = result.weights[v + 1]

\* The entry popped last is stale: its weight is above the weight its node
\* has by now.
Stale == run.shortestStep.weight > run.st.weights[run.currentNode + 1]

\* The while loop with an explicit skip of stale entries.
RECURSIVE RunLoopSkipStale(_, _, _)
RunLoopSkipStale(st, adj, fuel) ==
  IF Len(st.pq) = 0 \/ fuel = 0 THEN st
  ELSE LET p == Pop(st.pq)
       IN RunLoopSkipStale(
            IF p.top.weight > st.weights[p.top.toNode + 1]
            THEN [st EXCEPT !.pq = p.data]
            ELSE PopStep(st, adj),
            adj, fuel - 1)

\* The for loop with the candidate computed from the popped weight d.
RECURSIVE RelaxEdgesFrom(_, _, _, _, _)
RelaxEdgesFrom(st, edges, currentNode, d, k) ==
  IF k > Len(edges) THEN st
  ELSE LET weight == Plus(d, edges[k].weight)
           toNode == edges[k].toNode
       IN IF weight < st.weights[toNode + 1]
          THEN RelaxEdgesFrom(
                 [weights |-> [st.weights EXCEPT ![toNode + 1] = weight],
                  backtrace |-> [st.backtrace EXCEPT ![toNode + 1] = currentNode],
                  pq |-> Push(st.pq, [toNode |-> toNode, weight |-> weight])],
                 edges, currentNode, d, k + 1)
          ELSE RelaxEdgesFrom(st, edges, currentNode, d, k + 1)

\* The while loop relaxing with the popped weight.
RECURSIVE RunLoopPoppedWeight(_, _, _)
RunLoopPoppedWeight(st, adj, fuel) ==
  IF Len(st.pq) = 0 \/ fuel = 0 THEN st
  ELSE LET p == Pop(st.pq)
       IN RunLoopPoppedWeight(
            RelaxEdgesFrom([st EXCEPT !.pq = p.data], adj[p.top.toNode + 1],
                           p.top.toNode, p.top.weight, 1),
            adj, fuel - 1)

\* C16: in the for loop of a stale entry no step changes weights or backtrace
\* or pushes anything; and calculateFor returns the weights and backtrace that
\* the loop with a skip of stale entries computes, and that the loop relaxing
\* with the popped weight computes.
C16_StaleEntriesChangeNothing ==
  [][/\ run.pc = "for" /\ Stale => run'.st = run.st
     /\ InLoop /\ run'.pc = "returned" =>
          LET start == StartState(Len(RunGraph), run.startNode)
              skip == RunLoopSkipStale(start, RunGraph, LoopFuel(RunGraph))
              popped == RunLoopPoppedWeight(start, RunGraph, LoopFuel(RunGraph))
          IN /\ Len(skip.pq) = 0
             /\ skip.weights = result'.weights
             /\ skip.backtrace = result'.backtrace
             /\ Len(popped.pq) = 0
             /\ popped.weights = result'.weights
             /\ popped.backtrace = result'.backtrace
    ]_vars

\* The for loop of a stale entry is at a neighbor.
C16_Witness ==
  /\ AtNeighbor
  /\ Stale

\* C17: during calculateFor the weights of the entries popped never go down
\* from one pop to the next, and the weights and backtrace entries of a node
\* that has been popped stay as they are for the rest of the loop and in the
\* result returned.
C17_PopsNeverGoDown ==
  [][/\ run.popped # {} /\ run.pc = "while" /\ run'.pc = "for" =>
          run'.shortestStep.weight >= run.shortestStep.weight
     /\ InLoop =>
          \A v \in run.popped :
            /\ run'.st.weights[v + 1] = run.st.weights[v + 1]
            /\ run'.st.backtrace[v + 1] = run.st.backtrace[v + 1]
            /\ run'.pc = "returned" =>
                 /\ result'.weights[v + 1] = run.st.weights[v + 1]
                 /\ result'.backtrace[v + 1] = run.st.backtrace[v + 1]
    ]_vars

\* The third node was popped with a weight above 0, and the for loop is at
\* an edge that leads back to a node popped before.
C17_Witness ==
  /\ AtNeighbor
  /\ run.shortestStep.weight > 0
  /\ Cardinality(run.popped) = 3
  /\ RunEdges[run.k].toNode # run.currentNode

\* C18: the backtrace of every result calculateFor returns holds no cycle:
\* for every valid endNode the while loop of shortestPathTo ends, with a path
\* or with the "no path" Error, within as many turns as the result has nodes,
\* and no node is twice in a path returned.
C18_BacktraceHasNoCycle ==
  Solved =>
    \A endNode \in 0..(result.nodes - 1) :
      LET out == BackWalk(result, <<endNode>>, endNode, result.nodes)
      IN /\ out.err \in {"none", "Error"}
         /\ ShortestPathToOutcome(result, endNode) = out
         /\ Cardinality({out.ret[k] : k \in 1..Len(out.ret)}) = Len(out.ret)

\* A solve that reaches a cycle of weight 0 between two nodes other than the
\* start node.
C18_Witness ==
  /\ Solved
  /\ \E a, b \in 0..(result.nodes - 1) \ {result.startNode} :
       /\ a # b
       /\ 0 \in EdgeWeights(LastGraph, a, b)
       /\ 0 \in EdgeWeights(LastGraph, b, a)
       /\ result.weights[a + 1] < Infinity
       /\ Len(ShortestPathToOutcome(result, b).ret) = 3

====
